---- MODULE Spec2Model ----
\* Blog post service: slug normalisation (createSlug), the Blog collection with
\* its unique slug index, and the request handlers createBlog, updateBlog,
\* deleteBlog, getBlogs and getBlogsByCategory of controllers/Blog.js.
EXTENDS Integers, Sequences, FiniteSets, TLC

VARIABLES
    blogs,      \* the Blog collection: a set of documents
    assets,     \* keys of the images held by the image host (Cloudinary)
    nextId,     \* next _id the driver hands out
    nextKey,    \* next key the image host hands out
    now,        \* the clock read by new Date() / Date.now()
    nreq,       \* number of requests accepted so far
    proc,       \* per request slot: handler, position, request, locals, response
    slugIn,     \* createSlug: argument
    slugOut     \* createSlug: whether it was called, and its result

vars == <<blogs, assets, nextId, nextKey, now, nreq, proc, slugIn, slugOut>>

----------------------------------------------------------------------------
\* Bounds

MaxLen == 4        \* longest text handed to createSlug in SpecSlug
MaxTicks == 1      \* clock ticks
T0 == 9            \* first clock value (ticks cross from one digit to two)
MaxReqs == 2       \* requests accepted (all of them may be in flight together)
MaxPage == 2       \* largest page asked for
MaxLimit == 2      \* largest limit asked for
MaxPosts == 3      \* most posts in the collection when a listing starts

\* Schema limits (models/Blog.js)
TitleMax == 200
SlugMax == 220
MetaMax == 200
ReadTimeMin == 1
ReadTimeMax == 60

----------------------------------------------------------------------------
\* Text: a string is a sequence of one-character strings.

Alphabet == {"a", "b", "A", "1", " ", "*", "-"}

IsSpace(c) == c = " "
LowerLetters ==
    {"a", "b", "c", "d", "e", "f", "g", "h", "i", "j", "k", "l", "m",
     "n", "o", "p", "q", "r", "s", "t", "u", "v", "w", "x", "y", "z"}
DigitChars == {"0", "1", "2", "3", "4", "5", "6", "7", "8", "9"}
\* the character class [a-z0-9]
IsLowerAlnum(c) == c \in LowerLetters \cup DigitChars
LowerChar(c) == IF c = "A" THEN "a" ELSE IF c = "B" THEN "b" ELSE c

RECURSIVE TrimLeft(_)
TrimLeft(s) ==
    IF s # <<>> /\ IsSpace(Head(s)) THEN TrimLeft(Tail(s)) ELSE s

RECURSIVE TrimRight(_)
TrimRight(s) ==
    IF s # <<>> /\ IsSpace(s[Len(s)]) THEN TrimRight(SubSeq(s, 1, Len(s) - 1)) ELSE s

\* String.prototype.trim
Trim(s) == TrimRight(TrimLeft(s))

\* String.prototype.toLowerCase
ToLowerCase(s) == [i \in 1..Len(s) |-> LowerChar(s[i])]

RECURSIVE SkipNonAlnum(_)
SkipNonAlnum(s) ==
    IF s # <<>> /\ ~IsLowerAlnum(Head(s)) THEN SkipNonAlnum(Tail(s)) ELSE s

\* .replace(/[^a-z0-9]+/g, "-")
RECURSIVE ReplaceNonAlnum(_)
ReplaceNonAlnum(s) ==
    IF s = <<>> THEN <<>>
    ELSE IF IsLowerAlnum(Head(s)) THEN <<Head(s)>> \o ReplaceNonAlnum(Tail(s))
    ELSE <<"-">> \o ReplaceNonAlnum(SkipNonAlnum(s))

RECURSIVE StripLeadingHyphens(_)
StripLeadingHyphens(s) ==
    IF s # <<>> /\ Head(s) = "-" THEN StripLeadingHyphens(Tail(s)) ELSE s

RECURSIVE StripTrailingHyphens(_)
StripTrailingHyphens(s) ==
    IF s # <<>> /\ s[Len(s)] = "-"
    THEN StripTrailingHyphens(SubSeq(s, 1, Len(s) - 1)) ELSE s

StripHyphensKeepLeading(s) == StripTrailingHyphens(s)

\* .replace(/^-+|-+$/g, "")
StripHyphens(s) == StripTrailingHyphens(StripLeadingHyphens(s))

\* .replace(/-{2,}/g, "-")
RECURSIVE CollapseHyphens(_)
CollapseHyphens(s) ==
    IF s = <<>> THEN <<>>
    ELSE IF Head(s) = "-"
         THEN <<"-">> \o CollapseHyphens(StripLeadingHyphens(s))
         ELSE <<Head(s)>> \o CollapseHyphens(Tail(s))

DigitChar(d) == <<"0", "1", "2", "3", "4", "5", "6", "7", "8", "9">>[d + 1]

\* Number to decimal text, as the template literal does
RECURSIVE Digits(_)
Digits(n) ==
    IF n < 10 THEN <<DigitChar(n)>> ELSE Digits(n \div 10) \o <<DigitChar(n % 10)>>

\* `blog-${Date.now()}`
Placeholder(t) == <<"b", "l", "o", "g", "-">> \o Digits(t)

\* createSlug(value) evaluated when the clock reads t
createSlug(value, t) ==
    LET normalized ==
            CollapseHyphens(StripHyphens(ReplaceNonAlnum(ToLowerCase(Trim(value)))))
    IN  IF normalized # <<>> THEN normalized ELSE Placeholder(t)

----------------------------------------------------------------------------
\* Documents, images, categories

NoText == <<>>                       \* undefined or "" (both falsy)
NoCat == "none"                      \* category not supplied
Categories == {"c1", "c3"}           \* the Category collection; "c2" is a well-formed id of no category

NoImage == [host |-> "none", key |-> 0]
External == [host |-> "example.com", key |-> 0]
Cloudinary(k) == [host |-> "cloudinary.com", key |-> k]

\* blog.blogImage?.includes("cloudinary.com")
IsCloudinary(img) == img.host = "cloudinary.com"

Procs == 1..MaxReqs

Ids(store) == {b.id : b \in store}
ById(store, id) == CHOOSE b \in store : b.id = id

\* Schema validators run by save(): required paths, maxlength, min/max
ValidDoc(d) ==
    /\ d.title # NoText /\ Len(d.title) <= TitleMax
    /\ d.slug # NoText /\ Len(d.slug) <= SlugMax
    /\ d.content # NoText
    /\ d.blogImage # NoImage
    /\ d.readTime >= ReadTimeMin /\ d.readTime <= ReadTimeMax
    /\ d.category # NoCat
    /\ d.metaTitle # NoText /\ Len(d.metaTitle) <= MetaMax
    /\ d.metaDescription # NoText /\ Len(d.metaDescription) <= MetaMax

SlugIndexAllowsNoIndex(store, slug, id) == TRUE

\* The unique index on slug: a write of `slug` to document `id` is accepted
\* only if no other document holds it.
SlugIndexAllows(store, slug, id) ==
    \A b \in store : b.slug = slug => b.id = id

\* Schema setters applied when a document is built or an update is cast
NewBlog(id, req, img, nslug, t) ==
    [id |-> id,
     title |-> Trim(req.title),
     content |-> Trim(req.content),
     blogImage |-> img,
     readTime |-> req.readTime,
     category |-> req.category,
     slug |-> ToLowerCase(Trim(nslug)),
     metaTitle |-> Trim(req.metaTitle),
     metaDescription |-> Trim(req.metaDescription),
     publishedDate |-> IF req.publishedDate # 0 THEN req.publishedDate ELSE t]

\* A request: body, file, params and query of every handler in one record
NoReq ==
    [id |-> 0, title |-> NoText, content |-> NoText, readTime |-> 0,
     category |-> NoCat, slug |-> NoText, metaTitle |-> NoText,
     metaDescription |-> NoText, publishedDate |-> 0, blogImage |-> NoImage,
     file |-> FALSE, page |-> 1, limit |-> 1, search |-> NoText,
     sortBy |-> "publishedDate", sortOrder |-> "desc"]

NoDoc == [id |-> 0]
NoPagination == [currentPage |-> 0]

Idle ==
    [op |-> "none", pc |-> "idle", req |-> NoReq,
     blogImage |-> NoImage,      \* local blogImage
     nslug |-> NoText,           \* local normalizedSlug
     doc |-> NoDoc,              \* local blog
     cutoff |-> 0,               \* the Date in the filter
     status |-> 0, message |-> "", error |-> "",
     data |-> <<>>, pagination |-> NoPagination,
     snap |-> {},                \* history: the collection as find() saw it
     wrote |-> FALSE]            \* history: the request changed the collection

\* res.status(code).json({message, error})
Reply(pr, code, msg, err) ==
    [pr EXCEPT !.pc = "done", !.status = code, !.message = msg, !.error = err]

Accept(p) ==
    /\ nreq < MaxReqs
    /\ p = nreq + 1
    /\ nreq' = nreq + 1

----------------------------------------------------------------------------
\* createBlog

\* lines 54-70, after blogImage is resolved
CreateValidate(pr, img) ==
    LET r == pr.req
        q == [pr EXCEPT !.blogImage = img]
    IN  IF r.title = NoText \/ r.content = NoText \/ r.readTime = 0 \/ r.category = NoCat
        THEN Reply(q, 400, "Title, content, readTime, and category are required", "")
        ELSE IF img = NoImage
        THEN Reply(q, 400, "Blog image is required", "")
        ELSE [q EXCEPT !.pc = "category"]

CreateStart(p, req) ==
    /\ Accept(p)
    /\ LET pr == [Idle EXCEPT !.op = "createBlog", !.req = req]
       IN  proc' = [proc EXCEPT ![p] =
                IF req.file THEN [pr EXCEPT !.pc = "upload"]
                ELSE CreateValidate(pr, req.blogImage)]
    /\ UNCHANGED <<blogs, assets, nextId, nextKey, now, slugIn, slugOut>>

\* await uploadBlogImage(req.file.buffer) settles
CreateUpload(p) ==
    /\ proc[p].op = "createBlog" /\ proc[p].pc = "upload"
    /\ \E ok \in BOOLEAN :
        IF ok
        THEN /\ assets' = assets \cup {nextKey}
             /\ nextKey' = nextKey + 1
             /\ proc' = [proc EXCEPT ![p] = CreateValidate(proc[p], Cloudinary(nextKey))]
        ELSE /\ proc' = [proc EXCEPT ![p] =
                    Reply(proc[p], 500, "Error uploading image", "upload failed")]
             /\ UNCHANGED <<assets, nextKey>>
    /\ UNCHANGED <<blogs, nextId, now, nreq, slugIn, slugOut>>

\* await Category.findById(category) settles
CreateCategory(p) ==
    /\ proc[p].op = "createBlog" /\ proc[p].pc = "category"
    /\ LET r == proc[p].req
       IN  proc' = [proc EXCEPT ![p] =
                IF r.category \notin Categories
                THEN Reply(@, 404, "Category not found", "")
                ELSE [@ EXCEPT !.pc = "slugcheck",
                               !.nslug = createSlug(IF r.slug # NoText THEN r.slug ELSE r.title, now)]]
    /\ UNCHANGED <<blogs, assets, nextId, nextKey, now, nreq, slugIn, slugOut>>

\* await Blog.findOne({ slug: normalizedSlug }) settles; new Blog({...})
CreateSlugCheck(p) ==
    /\ proc[p].op = "createBlog" /\ proc[p].pc = "slugcheck"
    /\ IF \E b \in blogs : b.slug = proc[p].nslug
       THEN /\ proc' = [proc EXCEPT ![p] = Reply(@, 409, "Slug already exists", "")]
            /\ UNCHANGED nextId
       ELSE /\ proc' = [proc EXCEPT ![p] =
                    [@ EXCEPT !.pc = "save",
                              !.doc = NewBlog(nextId, proc[p].req, proc[p].blogImage,
                                              proc[p].nslug, now)]]
            /\ nextId' = nextId + 1
    /\ UNCHANGED <<blogs, assets, nextKey, now, nreq, slugIn, slugOut>>

\* await blog.save() settles; populate; 201
CreateSave(p) ==
    /\ proc[p].op = "createBlog" /\ proc[p].pc = "save"
    /\ LET d == proc[p].doc
       IN  IF ~ValidDoc(d)
           THEN /\ proc' = [proc EXCEPT ![p] =
                        Reply(@, 500, "Error creating blog", "Blog validation failed")]
                /\ UNCHANGED blogs
           ELSE IF ~SlugIndexAllows(blogs, d.slug, d.id)
           THEN /\ proc' = [proc EXCEPT ![p] =
                        Reply(@, 500, "Error creating blog", "E11000 duplicate key")]
                /\ UNCHANGED blogs
           ELSE /\ blogs' = blogs \cup {d}
                /\ proc' = [proc EXCEPT ![p] =
                        Reply([@ EXCEPT !.wrote = TRUE], 201, "Blog created successfully", "")]
    /\ UNCHANGED <<assets, nextId, nextKey, now, nreq, slugIn, slugOut>>

----------------------------------------------------------------------------
\* updateBlog

\* lines 270-279: updateData is built, then the slug branch
UpdateAfterCategory(pr) ==
    IF pr.req.slug # NoText
    THEN [pr EXCEPT !.pc = "slugcheck", !.nslug = createSlug(pr.req.slug, now)]
    ELSE [pr EXCEPT !.pc = "write"]

\* lines 260-268, after blogImage is resolved
UpdateAfterImage(pr, img) ==
    LET q == [pr EXCEPT !.blogImage = img]
    IN  IF pr.req.category # NoCat THEN [q EXCEPT !.pc = "category"]
        ELSE UpdateAfterCategory(q)

UpdateStart(p, req) ==
    /\ Accept(p)
    /\ LET pr == [Idle EXCEPT !.op = "updateBlog", !.req = req]
       IN  proc' = [proc EXCEPT ![p] =
                IF req.file THEN [pr EXCEPT !.pc = "upload"]
                ELSE UpdateAfterImage(pr, req.blogImage)]
    /\ UNCHANGED <<blogs, assets, nextId, nextKey, now, slugIn, slugOut>>

\* await uploadBlogImage(req.file.buffer) settles; a rejection reaches the outer catch
UpdateUpload(p) ==
    /\ proc[p].op = "updateBlog" /\ proc[p].pc = "upload"
    /\ \E ok \in BOOLEAN :
        IF ok
        THEN /\ assets' = assets \cup {nextKey}
             /\ nextKey' = nextKey + 1
             /\ proc' = [proc EXCEPT ![p] = UpdateAfterImage(proc[p], Cloudinary(nextKey))]
        ELSE /\ proc' = [proc EXCEPT ![p] =
                    Reply(proc[p], 500, "Error updating blog", "upload failed")]
             /\ UNCHANGED <<assets, nextKey>>
    /\ UNCHANGED <<blogs, nextId, now, nreq, slugIn, slugOut>>

\* await Category.findById(category) settles
UpdateCategory(p) ==
    /\ proc[p].op = "updateBlog" /\ proc[p].pc = "category"
    /\ proc' = [proc EXCEPT ![p] =
            IF @.req.category \notin Categories
            THEN Reply(@, 404, "Category not found", "")
            ELSE UpdateAfterCategory(@)]
    /\ UNCHANGED <<blogs, assets, nextId, nextKey, now, nreq, slugIn, slugOut>>

SlugTakenNoExclusion(store, slug, id) == \E b \in store : b.slug = slug

\* Blog.findOne({ slug: normalizedSlug, _id: { $ne: req.params.id } })
SlugTakenByOther(store, slug, id) ==
    \E b \in store : b.slug = slug /\ b.id # id

\* await Blog.findOne(...) settles
UpdateSlugCheck(p) ==
    /\ proc[p].op = "updateBlog" /\ proc[p].pc = "slugcheck"
    /\ proc' = [proc EXCEPT ![p] =
            IF SlugTakenByOther(blogs, @.nslug, @.req.id)
            THEN Reply(@, 409, "Slug already exists", "")
            ELSE [@ EXCEPT !.pc = "write"]]
    /\ UNCHANGED <<blogs, assets, nextId, nextKey, now, nreq, slugIn, slugOut>>

\* updateData applied to a document ($set, with the schema setters)
Patched(old, pr) ==
    LET r == pr.req
    IN  [old EXCEPT
            !.title = IF r.title # NoText THEN Trim(r.title) ELSE @,
            !.content = IF r.content # NoText THEN Trim(r.content) ELSE @,
            !.blogImage = IF pr.blogImage # NoImage THEN pr.blogImage ELSE @,
            !.readTime = IF r.readTime # 0 THEN r.readTime ELSE @,
            !.category = IF r.category # NoCat THEN r.category ELSE @,
            !.publishedDate = IF r.publishedDate # 0 THEN r.publishedDate ELSE @,
            !.slug = IF r.slug # NoText THEN ToLowerCase(Trim(pr.nslug)) ELSE @]

\* runValidators: true -- validators of the paths present in updateData
ValidUpdate(pr) ==
    LET r == pr.req
    IN  /\ r.title # NoText => Trim(r.title) # NoText /\ Len(Trim(r.title)) <= TitleMax
        /\ r.content # NoText => Trim(r.content) # NoText
        /\ r.readTime # 0 => r.readTime >= ReadTimeMin /\ r.readTime <= ReadTimeMax
        /\ r.slug # NoText => Len(pr.nslug) <= SlugMax

\* await Blog.findByIdAndUpdate(id, updateData, {new, runValidators}) settles
UpdateWrite(p) ==
    /\ proc[p].op = "updateBlog" /\ proc[p].pc = "write"
    /\ LET pr == proc[p]
           id == pr.req.id
       IN  IF ~ValidUpdate(pr)
           THEN /\ proc' = [proc EXCEPT ![p] =
                        Reply(@, 500, "Error updating blog", "Validation failed")]
                /\ UNCHANGED blogs
           ELSE IF id \notin Ids(blogs)
           THEN /\ proc' = [proc EXCEPT ![p] = Reply(@, 404, "Blog not found", "")]
                /\ UNCHANGED blogs
           ELSE LET old == ById(blogs, id)
                    new == Patched(old, pr)
                IN  IF ~SlugIndexAllows(blogs, new.slug, id)
                    THEN /\ proc' = [proc EXCEPT ![p] =
                                Reply(@, 500, "Error updating blog", "E11000 duplicate key")]
                         /\ UNCHANGED blogs
                    ELSE /\ blogs' = (blogs \ {old}) \cup {new}
                         /\ proc' = [proc EXCEPT ![p] =
                                Reply([@ EXCEPT !.wrote = (new # old), !.doc = new],
                                      200, "Blog updated successfully", "")]
    /\ UNCHANGED <<assets, nextId, nextKey, now, nreq, slugIn, slugOut>>

----------------------------------------------------------------------------
\* deleteBlog

DeleteStart(p, req) ==
    /\ Accept(p)
    /\ proc' = [proc EXCEPT ![p] = [Idle EXCEPT !.op = "deleteBlog", !.req = req, !.pc = "find"]]
    /\ UNCHANGED <<blogs, assets, nextId, nextKey, now, slugIn, slugOut>>

\* await Blog.findById(req.params.id) settles
DeleteFind(p) ==
    /\ proc[p].op = "deleteBlog" /\ proc[p].pc = "find"
    /\ LET id == proc[p].req.id
       IN  proc' = [proc EXCEPT ![p] =
                IF id \notin Ids(blogs)
                THEN Reply(@, 404, "Blog not found", "")
                ELSE LET b == ById(blogs, id)
                     IN  [@ EXCEPT !.doc = b,
                                   !.pc = IF IsCloudinary(b.blogImage) THEN "asset" ELSE "remove"]]
    /\ UNCHANGED <<blogs, assets, nextId, nextKey, now, nreq, slugIn, slugOut>>

\* await deleteImageFromCloudinary(blog.blogImage) settles; a rejection reaches the catch
DeleteAsset(p) ==
    /\ proc[p].op = "deleteBlog" /\ proc[p].pc = "asset"
    /\ \E ok \in BOOLEAN :
        IF ok
        THEN /\ assets' = assets \ {proc[p].doc.blogImage.key}
             /\ proc' = [proc EXCEPT ![p].pc = "remove"]
        ELSE /\ proc' = [proc EXCEPT ![p] =
                    Reply(@, 500, "Error deleting blog", "image delete failed")]
             /\ UNCHANGED assets
    /\ UNCHANGED <<blogs, nextId, nextKey, now, nreq, slugIn, slugOut>>

\* await Blog.findByIdAndDelete(req.params.id) settles
DeleteRemove(p) ==
    /\ proc[p].op = "deleteBlog" /\ proc[p].pc = "remove"
    /\ LET id == proc[p].req.id
       IN  /\ blogs' = {b \in blogs : b.id # id}
           /\ proc' = [proc EXCEPT ![p] =
                    Reply([@ EXCEPT !.wrote = (id \in Ids(blogs))],
                          200, "Blog deleted successfully", "")]
    /\ UNCHANGED <<assets, nextId, nextKey, now, nreq, slugIn, slugOut>>

----------------------------------------------------------------------------
\* getBlogs and getBlogsByCategory

Min(a, b) == IF a <= b THEN a ELSE b
Max(a, b) == IF a >= b THEN a ELSE b

Contains(hay, needle) ==
    \E i \in 0..(Len(hay) - Len(needle)) : SubSeq(hay, i + 1, i + Len(needle)) = needle

\* { $regex: search, $options: "i" } for a search text without metacharacters
RegexI(text, search) == Contains(ToLowerCase(text), ToLowerCase(search))

GetBlogsFilterNoGate(b, r, cutoff) ==
    /\ r.category # NoCat => b.category = r.category
    /\ r.search # NoText => (RegexI(b.title, r.search) \/ RegexI(b.content, r.search))

\* lines 131-142: the filter of getBlogs, cutoff being new Date()
GetBlogsFilter(b, r, cutoff) ==
    /\ b.publishedDate <= cutoff
    /\ r.category # NoCat => b.category = r.category
    /\ r.search # NoText => (RegexI(b.title, r.search) \/ RegexI(b.content, r.search))

\* lines 363-366 and 372-375: the filter of getBlogsByCategory
ByCategoryFilter(b, r, cutoff) ==
    /\ b.category = r.category
    /\ b.publishedDate <= cutoff

SortKey(b, sortBy) == IF sortBy = "publishedDate" THEN b.publishedDate ELSE b.readTime

\* .sort({[sortBy]: sortOrder === "desc" ? -1 : 1}): every order of S that
\* agrees with the key (the store does not say how equal keys are ordered)
SortedOrders(S, sortBy, sortOrder) ==
    LET n == Cardinality(S)
    IN  {s \in [1..n -> S] :
            /\ \A i, j \in 1..n : i # j => s[i] # s[j]
            /\ \A i, j \in 1..n : i < j =>
                IF sortOrder = "desc"
                THEN SortKey(s[i], sortBy) >= SortKey(s[j], sortBy)
                ELSE SortKey(s[i], sortBy) <= SortKey(s[j], sortBy)}

PageSliceSkipPage(s, page, limit) ==
    SubSeq(s, page * limit + 1, Min(page * limit + limit, Len(s)))

\* .limit(limit * 1).skip((page - 1) * limit)
PageSlice(s, page, limit) ==
    LET skip == (page - 1) * limit
    IN  IF skip >= Len(s) THEN <<>> ELSE SubSeq(s, skip + 1, Min(skip + limit, Len(s)))

\* Math.ceil(a / b) for a >= 0, b >= 1
CeilDiv(a, b) == (a + b - 1) \div b

\* lines 158-164
GetBlogsPagination(page, limit, total) ==
    [currentPage |-> page,
     totalPages |-> CeilDiv(total, limit),
     totalBlogs |-> total,
     hasNext |-> page < CeilDiv(total, limit),
     hasPrev |-> page > 1]

\* lines 380-384
ByCategoryPagination(page, limit, total) ==
    [currentPage |-> page,
     totalPages |-> CeilDiv(total, limit),
     totalBlogs |-> total]

GetBlogsStart(p, req) ==
    /\ Accept(p)
    /\ proc' = [proc EXCEPT ![p] =
            [Idle EXCEPT !.op = "getBlogs", !.req = req, !.pc = "find", !.cutoff = now]]
    /\ UNCHANGED <<blogs, assets, nextId, nextKey, now, slugIn, slugOut>>

\* await Blog.find(filter).populate().sort().limit().skip() settles
GetBlogsFind(p) ==
    /\ proc[p].op = "getBlogs" /\ proc[p].pc = "find"
    /\ LET r == proc[p].req
           M == {b \in blogs : GetBlogsFilter(b, r, proc[p].cutoff)}
       IN  \E s \in SortedOrders(M, r.sortBy, r.sortOrder) :
               proc' = [proc EXCEPT ![p] =
                    [@ EXCEPT !.pc = "count",
                              !.data = PageSlice(s, r.page, r.limit),
                              !.snap = blogs]]
    /\ UNCHANGED <<blogs, assets, nextId, nextKey, now, nreq, slugIn, slugOut>>

\* await Blog.countDocuments(filter) settles; 200
GetBlogsCount(p) ==
    /\ proc[p].op = "getBlogs" /\ proc[p].pc = "count"
    /\ LET r == proc[p].req
           total == Cardinality({b \in blogs : GetBlogsFilter(b, r, proc[p].cutoff)})
       IN  proc' = [proc EXCEPT ![p] =
                Reply([@ EXCEPT !.pagination = GetBlogsPagination(r.page, r.limit, total)],
                      200, "", "")]
    /\ UNCHANGED <<blogs, assets, nextId, nextKey, now, nreq, slugIn, slugOut>>

ByCategoryStart(p, req) ==
    /\ Accept(p)
    /\ proc' = [proc EXCEPT ![p] =
            [Idle EXCEPT !.op = "getBlogsByCategory", !.req = req, !.pc = "find",
                         !.cutoff = now]]
    /\ UNCHANGED <<blogs, assets, nextId, nextKey, now, slugIn, slugOut>>

\* await Blog.find({...}) settles; the count's filter takes a new Date()
ByCategoryFind(p) ==
    /\ proc[p].op = "getBlogsByCategory" /\ proc[p].pc = "find"
    /\ LET r == proc[p].req
           M == {b \in blogs : ByCategoryFilter(b, r, proc[p].cutoff)}
       IN  \E s \in SortedOrders(M, "publishedDate", "desc") :
               proc' = [proc EXCEPT ![p] =
                    [@ EXCEPT !.pc = "count",
                              !.data = PageSlice(s, r.page, r.limit),
                              !.snap = blogs,
                              !.cutoff = now]]
    /\ UNCHANGED <<blogs, assets, nextId, nextKey, now, nreq, slugIn, slugOut>>

\* await Blog.countDocuments({...}) settles; 200
ByCategoryCount(p) ==
    /\ proc[p].op = "getBlogsByCategory" /\ proc[p].pc = "count"
    /\ LET r == proc[p].req
           total == Cardinality({b \in blogs : ByCategoryFilter(b, r, proc[p].cutoff)})
       IN  proc' = [proc EXCEPT ![p] =
                Reply([@ EXCEPT !.pagination = ByCategoryPagination(r.page, r.limit, total)],
                      200, "", "")]
    /\ UNCHANGED <<blogs, assets, nextId, nextKey, now, nreq, slugIn, slugOut>>

\* the clock advances
Tick ==
    /\ now < T0 + MaxTicks
    /\ now' = now + 1
    /\ UNCHANGED <<blogs, assets, nextId, nextKey, nreq, proc, slugIn, slugOut>>

----------------------------------------------------------------------------
\* The write path: createBlog, updateBlog and deleteBlog requests, any number
\* of them in flight together, over a collection that already holds one or two posts.

Past == T0 - 1
Future == T0 + MaxTicks + 1

P1 ==
    [id |-> 1, title |-> <<"a">>, content |-> <<"x">>, blogImage |-> External,
     readTime |-> 5, category |-> "c1", slug |-> <<"a">>, metaTitle |-> <<"m">>,
     metaDescription |-> <<"d">>, publishedDate |-> Past]

P2 ==
    [id |-> 2, title |-> <<"b">>, content |-> <<"x">>, blogImage |-> Cloudinary(1),
     readTime |-> 5, category |-> "c1", slug |-> <<"b">>, metaTitle |-> <<"m">>,
     metaDescription |-> <<"d">>, publishedDate |-> Past]

ImageKeys(store) == {b.blogImage.key : b \in {c \in store : IsCloudinary(c.blogImage)}}

InitCommon ==
    /\ nextId = 3
    /\ nextKey = 2
    /\ nreq = 0
    /\ proc = [p \in Procs |-> Idle]
    /\ slugIn = <<>>
    /\ slugOut = [called |-> FALSE, value |-> <<>>]

Init ==
    /\ blogs \in {{P1}, {P1, P2}}
    /\ assets = ImageKeys(blogs)
    /\ now = T0
    /\ InitCommon

C0 ==
    [NoReq EXCEPT !.title = <<"a">>, !.content = <<"x">>, !.readTime = 5,
                  !.category = "c1", !.metaTitle = <<"m">>,
                  !.metaDescription = <<"d">>, !.blogImage = External]

CreateReqs ==
    {[C0 EXCEPT !.title = t] : t \in {<<"a">>, <<"A", "*">>, <<"*">>}}
    \cup {[C0 EXCEPT !.file = TRUE, !.blogImage = NoImage, !.title = NoText],
          [C0 EXCEPT !.file = TRUE, !.blogImage = NoImage, !.title = <<"c">>,
                     !.category = "c2"],
          [C0 EXCEPT !.title = <<"c">>, !.metaTitle = NoText],
          [C0 EXCEPT !.title = <<"c">>, !.slug = <<"B", " ">>, !.publishedDate = Future]}

U0(id) == [NoReq EXCEPT !.id = id]

UpdateReqs ==
    {[U0(id) EXCEPT !.slug = s, !.category = c] :
        id \in 1..2, s \in {<<"a">>, <<"B", "!">>}, c \in {NoCat, "c2"}}
    \cup {[U0(1) EXCEPT !.metaTitle = <<"n">>],
          [U0(1) EXCEPT !.file = TRUE, !.category = "c2"],
          [U0(1) EXCEPT !.readTime = ReadTimeMax + 1],
          [U0(1) EXCEPT !.title = <<"t">>, !.content = <<"y">>, !.readTime = 7,
                        !.category = "c1", !.slug = <<"c">>, !.metaTitle = <<"n">>,
                        !.metaDescription = <<"n">>, !.publishedDate = Future,
                        !.blogImage = External]}

DeleteReqs == {U0(id) : id \in 1..2}

Next ==
    \/ \E p \in Procs : \E req \in CreateReqs : CreateStart(p, req)
    \/ \E p \in Procs : CreateUpload(p)
    \/ \E p \in Procs : CreateCategory(p)
    \/ \E p \in Procs : CreateSlugCheck(p)
    \/ \E p \in Procs : CreateSave(p)
    \/ \E p \in Procs : \E req \in UpdateReqs : UpdateStart(p, req)
    \/ \E p \in Procs : UpdateUpload(p)
    \/ \E p \in Procs : UpdateCategory(p)
    \/ \E p \in Procs : UpdateSlugCheck(p)
    \/ \E p \in Procs : UpdateWrite(p)
    \/ \E p \in Procs : \E req \in DeleteReqs : DeleteStart(p, req)
    \/ \E p \in Procs : DeleteFind(p)
    \/ \E p \in Procs : DeleteAsset(p)
    \/ \E p \in Procs : DeleteRemove(p)
    \/ Tick

Spec == Init /\ [][Next]_vars

----------------------------------------------------------------------------
\* The read path: one getBlogs or getBlogsByCategory request over a collection
\* of up to MaxPosts posts, with deleteBlog requests and the clock running
\* alongside it.

L1 == [P1 EXCEPT !.publishedDate = Past - 1]
L2 == [P2 EXCEPT !.readTime = 7]
L3 == [P1 EXCEPT !.id = 3, !.slug = <<"c">>, !.title = <<"c", " ", "a">>,
                 !.publishedDate = T0 + 1]
L4 == [P1 EXCEPT !.id = 4, !.slug = <<"d">>, !.readTime = 1, !.publishedDate = Future]
L5 == [P1 EXCEPT !.id = 5, !.slug = <<"e">>, !.title = <<"A">>, !.category = "c3",
                 !.readTime = 7]

Catalogue == {L1, L2, L3, L4, L5}

InitList ==
    /\ blogs \in {S \in SUBSET Catalogue : Cardinality(S) <= MaxPosts}
    /\ assets = ImageKeys(blogs)
    /\ now = T0
    /\ nextId = 6
    /\ nextKey = 2
    /\ nreq = 0
    /\ proc = [p \in Procs |-> Idle]
    /\ slugIn = <<>>
    /\ slugOut = [called |-> FALSE, value |-> <<>>]

GetBlogsReqs ==
    {[NoReq EXCEPT !.page = pg, !.limit = lm, !.category = c, !.search = q,
                   !.sortBy = sb, !.sortOrder = so] :
        pg \in 1..MaxPage, lm \in 1..MaxLimit, c \in {NoCat, "c1"},
        q \in {NoText, <<"a">>}, sb \in {"publishedDate", "readTime"},
        so \in {"asc", "desc"}}

ByCategoryReqs ==
    {[NoReq EXCEPT !.page = pg, !.limit = lm, !.category = c] :
        pg \in 1..MaxPage, lm \in 1..MaxLimit, c \in {"c1", "c3"}}

\* the write that runs alongside the listing: the delete of L2
ListDeleteReqs == {U0(2)}

NextList ==
    \/ \E req \in GetBlogsReqs : GetBlogsStart(1, req)       \* the listing comes first
    \/ \E p \in Procs : GetBlogsFind(p)
    \/ \E p \in Procs : GetBlogsCount(p)
    \/ \E req \in ByCategoryReqs : ByCategoryStart(1, req)
    \/ \E p \in Procs : ByCategoryFind(p)
    \/ \E p \in Procs : ByCategoryCount(p)
    \/ \E p \in Procs : \E req \in ListDeleteReqs : DeleteStart(p, req)
    \/ \E p \in Procs : DeleteFind(p)
    \/ \E p \in Procs : DeleteAsset(p)
    \/ \E p \in Procs : DeleteRemove(p)
    \/ Tick

SpecList == InitList /\ [][NextList]_vars

----------------------------------------------------------------------------
\* createSlug on its own: every text of up to MaxLen characters, at any clock
\* value.

RECURSIVE Texts(_)
Texts(n) ==
    IF n = 0 THEN {<<>>}
    ELSE Texts(n - 1) \cup {Append(t, c) : t \in {u \in Texts(n - 1) : Len(u) = n - 1}, c \in Alphabet}

InitSlug ==
    /\ slugIn \in Texts(MaxLen)
    /\ slugOut = [called |-> FALSE, value |-> <<>>]
    /\ blogs = {}
    /\ assets = {}
    /\ now = T0
    /\ nextId = 1
    /\ nextKey = 1
    /\ nreq = 0
    /\ proc = [p \in Procs |-> Idle]

CallCreateSlug ==
    /\ ~slugOut.called
    /\ slugOut' = [called |-> TRUE, value |-> createSlug(slugIn, now)]
    /\ UNCHANGED <<blogs, assets, nextId, nextKey, now, nreq, proc, slugIn>>

NextSlug == CallCreateSlug \/ Tick

SpecSlug == InitSlug /\ [][NextSlug]_vars

----------------------------------------------------------------------------
\* Properties of the write path (checked under Spec)

Done(p) == proc[p].pc = "done"
\* request p gets its response in this step
Finishes(p) == proc[p].pc # "done" /\ proc'[p].pc = "done"

\* C1: in every reachable state, whatever the interleaving of create and update
\* requests, no two stored posts have the same slug.
C1_SlugUnique ==
    \A b1, b2 \in blogs : b1.slug = b2.slug => b1 = b2

\* C1 witness: two creates with the same normalized slug ran together; one was
\* stored and the other was turned down by the index.
C1_Witness ==
    \E p, q \in Procs :
        /\ p # q
        /\ proc[p].op = "createBlog" /\ proc[q].op = "createBlog"
        /\ Done(p) /\ Done(q)
        /\ proc[p].nslug = proc[q].nslug
        /\ proc[p].status = 201 /\ proc[p].doc \in blogs
        /\ proc[q].error = "E11000 duplicate key"

\* C2: every create that is refused because its normalized slug is already
\* stored answers 409 and stores nothing.
C2_CollisionIs409 ==
    \A p \in Procs :
        (/\ proc[p].op = "createBlog" /\ Done(p)
         /\ (proc[p].status = 409 \/ proc[p].error = "E11000 duplicate key"))
        => (proc[p].status = 409 /\ ~proc[p].wrote)

\* C3: a delete of an existing post whose cover image is on the image host
\* removes the post, whether or not the image host's delete succeeds.
C3_DeleteRemovesPost ==
    \A p \in Procs :
        (/\ proc[p].op = "deleteBlog" /\ Done(p)
         /\ proc[p].doc # NoDoc
         /\ IsCloudinary(proc[p].doc.blogImage))
        => proc[p].req.id \notin Ids(blogs)

\* C4: an update whose id resolves to no post answers 404 "Blog not found",
\* whatever else it supplies, and changes no post.
C4_UpdateMissingIs404 ==
    [][\A p \in Procs :
        (/\ proc'[p].op = "updateBlog" /\ Finishes(p)
         /\ proc'[p].req.id \notin Ids(blogs))
        => (/\ proc'[p].status = 404
            /\ proc'[p].message = "Blog not found"
            /\ blogs' = blogs)]_vars

\* C5: a create or update that ends in 400 or 404 has changed no post and has
\* left no image it uploaded on the image host.
C5_NoPartialState ==
    \A p \in Procs :
        (/\ proc[p].op \in {"createBlog", "updateBlog"} /\ Done(p)
         /\ proc[p].status \in {400, 404})
        => (/\ ~proc[p].wrote
            /\ ~(/\ proc[p].req.file
                 /\ IsCloudinary(proc[p].blogImage)
                 /\ proc[p].blogImage.key \in assets))

\* C6: a successful update of post P sets every supplied field of title, slug,
\* content, cover image, readTime, category, metaTitle, metaDescription and
\* publishedDate to the supplied value (slug normalized), keeps every other
\* field and P's id, and leaves every other post as it was.
C6_PartialPatch ==
    [][\A p \in Procs :
        (/\ proc'[p].op = "updateBlog" /\ Finishes(p) /\ proc'[p].status = 200)
        => LET r == proc'[p].req
               id == r.id
           IN  /\ id \in Ids(blogs) /\ id \in Ids(blogs')
               /\ {b \in blogs' : b.id # id} = {b \in blogs : b.id # id}
               /\ LET old == ById(blogs, id)
                      new == ById(blogs', id)
                  IN  /\ new.title = IF r.title # NoText THEN r.title ELSE old.title
                      /\ new.slug = IF r.slug # NoText THEN createSlug(r.slug, now) ELSE old.slug
                      /\ new.content = IF r.content # NoText THEN r.content ELSE old.content
                      /\ new.blogImage =
                            IF r.file THEN proc'[p].blogImage
                            ELSE IF r.blogImage # NoImage THEN r.blogImage ELSE old.blogImage
                      /\ new.readTime = IF r.readTime # 0 THEN r.readTime ELSE old.readTime
                      /\ new.category = IF r.category # NoCat THEN r.category ELSE old.category
                      /\ new.metaTitle =
                            IF r.metaTitle # NoText THEN r.metaTitle ELSE old.metaTitle
                      /\ new.metaDescription =
                            IF r.metaDescription # NoText THEN r.metaDescription
                            ELSE old.metaDescription
                      /\ new.publishedDate =
                            IF r.publishedDate # 0 THEN r.publishedDate ELSE old.publishedDate]_vars

\* C7: for an update of an existing post P that supplies slug s and reaches
\* the slug check: when createSlug(s) is P's own slug the check passes and the
\* write of a valid update answers 200 with P's slug unchanged; when
\* createSlug(s) is the slug of another post the update answers 409 and no
\* post changes.
C7_SlugConflictOnUpdate ==
    [][\A p \in Procs :
        (/\ proc[p].op = "updateBlog" /\ proc'[p] # proc[p]
         /\ proc[p].req.slug # NoText
         /\ proc[p].req.id \in Ids(blogs))
        => LET id == proc[p].req.id
               P == ById(blogs, id)
               s == createSlug(proc[p].req.slug, now)
           IN  /\ (proc[p].pc = "slugcheck" /\ P.slug = s) => proc'[p].pc = "write"
               /\ (proc[p].pc = "write" /\ P.slug = s /\ ValidUpdate(proc[p]))
                    => (/\ proc'[p].status = 200
                        /\ id \in Ids(blogs') /\ ById(blogs', id).slug = s)
               /\ (proc[p].pc = "slugcheck" /\ \E Q \in blogs : Q.id # id /\ Q.slug = s)
                    => (proc'[p].status = 409 /\ blogs' = blogs)]_vars

\* C7 witness: one update re-submitted its post's own slug and got 200, another
\* asked for the slug of a different post and got 409.
C7_Witness ==
    \E p, q \in Procs :
        /\ proc[p].op = "updateBlog" /\ Done(p) /\ proc[p].status = 200
        /\ proc[p].req.slug # NoText /\ ~proc[p].wrote
        /\ proc[p].doc.slug = createSlug(proc[p].req.slug, now)
        /\ proc[q].op = "updateBlog" /\ Done(q) /\ proc[q].status = 409
        /\ proc[q].req.id \in Ids(blogs)
        /\ \E Q \in blogs : Q.id # proc[q].req.id /\ Q.slug = proc[q].nslug

----------------------------------------------------------------------------
\* Properties of the read path (checked under SpecList)

IsList(p) == proc'[p].op \in {"getBlogs", "getBlogsByCategory"}

\* what the request asks for besides the publish date
Wanted(op, r, b) ==
    IF op = "getBlogsByCategory" THEN b.category = r.category
    ELSE /\ r.category = NoCat \/ b.category = r.category
         /\ \/ r.search = NoText
            \/ Contains(ToLowerCase(b.title), ToLowerCase(r.search))
            \/ Contains(ToLowerCase(b.content), ToLowerCase(r.search))

\* C8: whatever the collection and the category, search, sort and pagination
\* parameters, a listing (getBlogs or getBlogsByCategory) returns no post whose
\* publishedDate is later than the clock when it answers, and totalBlogs is the
\* number of wanted posts published up to some instant not later than that.
C8_PublishGate ==
    [][\A p \in Procs :
        (IsList(p) /\ Finishes(p))
        => LET r == proc'[p].req
               out == proc'[p]
           IN  /\ \A i \in 1..Len(out.data) : out.data[i].publishedDate <= now
               /\ \E t \in 0..now :
                    out.pagination.totalBlogs =
                        Cardinality({b \in blogs :
                            Wanted(out.op, r, b) /\ b.publishedDate <= t})]_vars

\* C8 witness: a listing answered with posts while the collection held a wanted
\* post scheduled for later.
C8_Witness ==
    \E p \in Procs :
        /\ proc[p].op \in {"getBlogs", "getBlogsByCategory"} /\ Done(p)
        /\ proc[p].snap = blogs
        /\ Len(proc[p].data) > 0
        /\ \E b \in blogs : Wanted(proc[p].op, proc[p].req, b) /\ b.publishedDate > now

\* C9: for page >= 1 and limit >= 1, a getBlogs with no write between its two
\* queries returns the posts at positions [(page-1)*limit, page*limit) of the
\* sorted matching posts, min(limit, max(0, total-(page-1)*limit)) of them,
\* with totalBlogs = total, totalPages = ceil(total/limit),
\* hasNext = (page < totalPages), hasPrev = (page > 1); 25 matches with limit
\* 10 and page 3 give 5 posts, 3 pages, no next page and a previous page.
C9_Pagination ==
    [][\A p \in Procs :
        (/\ proc'[p].op = "getBlogs" /\ Finishes(p)
         /\ proc[p].snap = blogs
         /\ proc[p].req.page >= 1 /\ proc[p].req.limit >= 1)
        => LET r == proc[p].req
               out == proc'[p]
               M == {b \in blogs : Wanted("getBlogs", r, b)
                                   /\ b.publishedDate <= proc[p].cutoff}
               total == Cardinality(M)
               pages == CHOOSE n \in 0..total :
                            n * r.limit >= total /\ (n = 0 \/ (n - 1) * r.limit < total)
               first == (r.page - 1) * r.limit
               count == Min(r.limit, Max(0, total - first))
           IN  /\ Len(out.data) = count
               /\ \E s \in SortedOrders(M, r.sortBy, r.sortOrder) :
                    \A i \in 1..count : out.data[i] = s[first + i]
               /\ out.pagination.currentPage = r.page
               /\ out.pagination.totalBlogs = total
               /\ out.pagination.totalPages = pages
               /\ out.pagination.hasNext = (r.page < pages)
               /\ out.pagination.hasPrev = (r.page > 1)
               /\ out.status = 200]_vars
    /\ Len(PageSlice([i \in 1..25 |-> i], 3, 10)) = 5
    /\ GetBlogsPagination(3, 10, 25) =
            [currentPage |-> 3, totalPages |-> 3, totalBlogs |-> 25,
             hasNext |-> FALSE, hasPrev |-> TRUE]

\* C9 witness: a getBlogs for the last, partly filled page: a previous page, no
\* next page, fewer posts than the limit.
C9_Witness ==
    \E p \in Procs :
        /\ proc[p].op = "getBlogs" /\ Done(p)
        /\ proc[p].snap = blogs
        /\ proc[p].req.page >= 2 /\ proc[p].req.limit >= 2
        /\ Len(proc[p].data) >= 1 /\ Len(proc[p].data) < proc[p].req.limit
        /\ proc[p].pagination.hasPrev /\ ~proc[p].pagination.hasNext
        /\ proc[p].pagination.totalBlogs = MaxPosts

----------------------------------------------------------------------------
\* Properties of createSlug (checked under SpecSlug)

SlugChars == LowerLetters \cup DigitChars \cup {"-"}

\* C10: for every text, createSlug returns a non-empty string over [a-z0-9-]
\* that neither starts nor ends with "-" and has no "--"; when the text has no
\* letter or digit the result is "blog-" followed by the clock's value.
C10_SlugShape ==
    slugOut.called =>
        LET s == slugOut.value
        IN  /\ Len(s) > 0
            /\ \A i \in 1..Len(s) : s[i] \in SlugChars
            /\ s[1] # "-" /\ s[Len(s)] # "-"
            /\ \A i \in 1..(Len(s) - 1) : ~(s[i] = "-" /\ s[i + 1] = "-")
            /\ (\A i \in 1..Len(slugIn) : ~IsLowerAlnum(LowerChar(slugIn[i])))
                => \E t \in T0..now : s = <<"b", "l", "o", "g", "-">> \o Digits(t)

\* C10 witness: a text with symbols, upper case and hyphens around and inside
\* has been normalized.
C10_Witness ==
    /\ slugOut.called
    /\ slugIn = <<"-", "A", "*", "b">>
    /\ slugOut.value = <<"a", "-", "b">>

====
